---- MODULE Spec2Model ----
(***************************************************************************)
(* Generic (continuous) futures series of quant1/src/task_2:               *)
(* FutureData.merge_and_filter, process_index_futures,                     *)
(* process_commodity_futures, calculate_rollover_dates, adjust_close and   *)
(* MyAnalysis.run; and the treasury-auction job of quant1/src/task_3:      *)
(* Processor.process_data, Database.insert_data and main.                  *)
(*                                                                         *)
(* A DataFrame is a sequence of records (its rows, in row order).  A       *)
(* contract id (ts_code) is a number; trade, list and delist dates are     *)
(* numbers (the CSV holds them as YYYYMMDD integers).  A float is a pair   *)
(* <<n, d>> standing for n / d, with d = 0 for the IEEE values a division  *)
(* by zero produces: <<n, 0>> with n > 0 is +inf and <<0, 0>> is NaN.      *)
(* Prices, volumes and open interest of the input are naturals.            *)
(***************************************************************************)
EXTENDS Integers, Sequences, FiniteSets, TLC

VARIABLES
    pc,               \* position in MyAnalysis.run
    future_price,     \* FutureData.future_price (rows of future_price.csv)
    future_ref,       \* FutureData.future_ref (rows of future_ref.csv)
    futures,          \* result of merge_and_filter
    family,           \* "IF" or "P": which process_* call is running
    df,               \* the frame calculate_rollover_dates / adjust_close work on
    i,                \* loop index i of calculate_rollover_dates (0-based, as in range)
    current_contract, \* local current_contract of calculate_rollover_dates
    index_futures,    \* MyAnalysis.index_futures
    commodity_futures,\* MyAnalysis.commodity_futures
    rolling,          \* the rows output_rolling_result exports
    pass,             \* number of times the roll/adjust stages ran on this frame
    first_output,     \* the frame as the first pass left it
    website,          \* the announcements the scraped page shows at the moment
    data,             \* main's data: the records the last run of the job scraped
    upcoming_auctions,\* the rows of the table upcoming_auctions
    call              \* the last call of a Database method and how it ended

vars == <<pc, future_price, future_ref, futures, family, df, i,
          current_contract, index_futures, commodity_futures, rolling, pass,
          first_output, website, data, upcoming_auctions, call>>

futureVars == <<pc, future_price, future_ref, futures, family, df, i,
                current_contract, index_futures, commodity_futures, rolling,
                pass, first_output>>
auctionVars == <<website, data, upcoming_auctions, call>>

(***************************************************************************)
(* Bounds of the model.                                                    *)
(***************************************************************************)
MaxVol == 2       \* vol of an input row is in 1 .. MaxVol
MaxOi == 2        \* oi of an input row is in 1 .. MaxOi
MaxClose == 12    \* close of an input row is in 0 .. MaxClose
MaxPass == 2      \* the roll/adjust stages are applied at most MaxPass times
MaxRoundClose == 3    \* close of a row of the rounding inputs is in 1 .. MaxRoundClose

IFCodes == {1, 2, 3, 4}          \* ts_code of the IF contracts of the model
PCodes == {5, 6, 7}              \* ts_code of the P contracts of the model
TradeDates == {1, 2, 3}          \* trading days of the model
None == 0                        \* last_contract = None; no contract id is 0

(***************************************************************************)
(* Floats as fractions.                                                    *)
(***************************************************************************)
Float(n) == <<n, 1>>
IsNaN(x) == x[1] = 0 /\ x[2] = 0
IsInf(x) == x[1] # 0 /\ x[2] = 0
IsFinite(x) == x[2] # 0
\* x * y; inf * 0 and anything * NaN are NaN, which <<0, 0>> is
FMul(x, y) == <<x[1] * y[1], x[2] * y[2]>>
\* x / y of two input numbers; n / 0 is inf and 0 / 0 is NaN (numpy division)
FDiv(n, m) == <<n, m>>
FEq(x, y) == IsFinite(x) /\ IsFinite(y) /\ x[1] * y[2] = y[1] * x[2]
\* |x - y| <= 1/10 for finite x, y >= 0
FWithinTenth(x, y) ==
    /\ IsFinite(x) /\ IsFinite(y)
    /\ 10 * (x[1] * y[2] - y[1] * x[2]) <= x[2] * y[2]
    /\ 10 * (y[1] * x[2] - x[1] * y[2]) <= x[2] * y[2]

\* Series.round(1): to the nearest tenth, halves to the even tenth; inf and
\* NaN stay.
Round1(x) ==
    IF x[2] = 0 THEN x
    ELSE LET n == 10 * x[1]
             q == n \div x[2]
             r == n % x[2]
         IN  IF 2 * r < x[2] THEN <<q, 10>>
             ELSE IF 2 * r > x[2] THEN <<q + 1, 10>>
             ELSE IF q % 2 = 0 THEN <<q, 10>> ELSE <<q + 1, 10>>

(***************************************************************************)
(* DataFrame helpers.                                                      *)
(***************************************************************************)
\* DataFrame.sort_values with a stable sort (lexsort for several keys; numpy's
\* quicksort is an insertion sort, hence stable, below 17 rows): rows that
\* compare equal keep their order
\* key[j] is the sort key of row j (\o << >> leaves a sequence as it is)
StableSort(s, key) ==
    LET n == Len(s)
        keys == key \o << >>
        pos == [j \in 1..n |-> 1 + Cardinality({m \in 1..n :
                        \/ keys[m] < keys[j]
                        \/ keys[m] = keys[j] /\ m < j})] \o << >>
    IN  [p \in 1..n |-> s[CHOOSE j \in 1..n : pos[j] = p]] \o << >>

Codes(s) == {s[j].ts_code : j \in 1..Len(s)}

\* pd.merge(future_price, future_ref, on='ts_code') of one price row: the row
\* joined with each reference row of its ts_code, in reference order
MergeRow(p, ref) ==
    LET hits == SelectSeq(ref, LAMBDA r : r.ts_code = p.ts_code)
    IN  [k \in 1..Len(hits) |->
            [ts_code |-> p.ts_code, trade_date |-> p.trade_date,
             close |-> p.close, vol |-> p.vol, oi |-> p.oi,
             fut_code |-> hits[k].fut_code, list_date |-> hits[k].list_date,
             delist_date |-> hits[k].delist_date]]

RECURSIVE Merge(_, _)
Merge(price, ref) ==
    IF price = << >> THEN << >>
    ELSE MergeRow(Head(price), ref) \o Merge(Tail(price), ref)

\* the listing-window test with the delist day itself let through
ListedThroughDelist(r) ==
    r.list_date <= r.trade_date /\ r.delist_date >= r.trade_date

\* the listing-window test of merge_and_filter
Listed(r) == r.list_date <= r.trade_date /\ r.delist_date > r.trade_date

merge_and_filter(price, ref) ==
    LET listed_futures == SelectSeq(Merge(price, ref), Listed)
    IN  StableSort(listed_futures,
                   [j \in 1..Len(listed_futures) |->
                       listed_futures[j].trade_date])

(***************************************************************************)
(* Ranking: process_index_futures and process_commodity_futures up to the  *)
(* call of calculate_rollover_dates.                                       *)
(***************************************************************************)
\* the rank by delist date taken in descending order
expiry_rank_descending(s, r) ==
    1 + Cardinality({m \in 1..Len(s) :
            s[m].trade_date = r.trade_date /\ s[m].delist_date > r.delist_date})

\* groupby('trade_date')['delist_date'].rank(method='min'): ascending, tied
\* rows all get the lowest rank of their group
expiry_rank(s, r) ==
    1 + Cardinality({m \in 1..Len(s) :
            s[m].trade_date = r.trade_date /\ s[m].delist_date < r.delist_date})

\* groupby('trade_date')['oi'].rank(method='max'): ascending, tied rows all
\* get the highest rank of their group
active_rank(s, r) ==
    Cardinality({m \in 1..Len(s) :
        s[m].trade_date = r.trade_date /\ s[m].oi <= r.oi})

\* .map({1: 'IFc1', 2: 'IFc2', 3: 'IFc3'}); a rank outside the dict maps to NaN
IndexGeneric(rank) ==
    CASE rank = 1 -> "IFc1" [] rank = 2 -> "IFc2" [] rank = 3 -> "IFc3"
      [] OTHER -> "NaN"

\* .map({1: 'Pv1', 2: 'Pv2', 3: 'Pv3'})
CommodityGeneric(rank) ==
    CASE rank = 1 -> "Pv1" [] rank = 2 -> "Pv2" [] rank = 3 -> "Pv3"
      [] OTHER -> "NaN"

\* lines 47-50: the IF rows, ranked by delist date, the rows of rank 1..3 kept
IndexRanked(fut) ==
    LET index == SelectSeq(fut, LAMBDA r : r.fut_code = "IF")
        ranked == [k \in 1..Len(index) |->
                      [expiry_rank |-> expiry_rank(index, index[k]),
                       generic |-> IndexGeneric(expiry_rank(index, index[k]))]
                      @@ index[k]]
    IN  SelectSeq(ranked, LAMBDA r : r.generic \in {"IFc1", "IFc2", "IFc3"})

\* lines 56-59: the P rows, ranked by open interest, the rows of rank 1..3 kept
CommodityRanked(fut) ==
    LET commodity == SelectSeq(fut, LAMBDA r : r.fut_code = "P")
        ranked == [k \in 1..Len(commodity) |->
                      [active_rank |-> active_rank(commodity, commodity[k]),
                       generic |-> CommodityGeneric(
                                      active_rank(commodity, commodity[k]))]
                      @@ commodity[k]]
    IN  SelectSeq(ranked, LAMBDA r : r.generic \in {"Pv1", "Pv2", "Pv3"})

(***************************************************************************)
(* calculate_rollover_dates.                                               *)
(***************************************************************************)
\* lines 66-71: sort by (trade_date, delist_date), a stable sort by the minor
\* key followed by one by the major key (lexsort); reset the index;
\* rollover = 0
RolloverInit(d) ==
    LET minor == StableSort(d, [j \in 1..Len(d) |-> d[j].delist_date])
        sorted == StableSort(minor,
                             [j \in 1..Len(d) |-> minor[j].trade_date])
    IN  [k \in 1..Len(sorted) |-> [rollover |-> 0] @@ sorted[k]]

\* sort_values('vol', ascending=False): descending volume, rows of equal
\* volume in frame order
SortVolDesc(s) == StableSort(s, [j \in 1..Len(s) |-> 0 - s[j].vol])

\* every row of the contract marked, whatever its day
MarkRolloverAllDays(d, code, day) ==
    [k \in 1..Len(d) |->
        IF d[k].ts_code = code THEN [d[k] EXCEPT !.rollover = 1] ELSE d[k]]

\* df.loc[(df['ts_code'] == code) & (df['trade_date'] == day), 'rollover'] = 1
MarkRollover(d, code, day) ==
    [k \in 1..Len(d) |->
        IF d[k].ts_code = code /\ d[k].trade_date = day
        THEN [d[k] EXCEPT !.rollover = 1] ELSE d[k]]

\* line 79: the rows of the trade date of row i (0-based)
current_date_contracts(d, k) ==
    SelectSeq(d, LAMBDA r : r.trade_date = d[k + 1].trade_date)

\* the candidates chosen by volume alone, whatever their delist date
rollover_contracts_by_volume(cdc, cur) ==
    LET own == SelectSeq(cdc, LAMBDA r : r.ts_code = cur)
    IN  SelectSeq(cdc, LAMBDA r : r.vol > own[1].vol)

\* line 93: the rows of the day with a higher volume and a later delist date
\* than the current contract's row of that day
rollover_contracts(cdc, cur) ==
    LET own == SelectSeq(cdc, LAMBDA r : r.ts_code = cur)
        current_contract_vol == own[1].vol
        current_contract_delist_date == own[1].delist_date
    IN  SelectSeq(cdc, LAMBDA r : /\ r.vol > current_contract_vol
                                  /\ r.delist_date > current_contract_delist_date)

\* the held contract kept when it has no row on the day
NextContractHold(d, k, cur) ==
    LET cdc == current_date_contracts(d, k)
    IN  IF cur \in Codes(cdc) /\ rollover_contracts(cdc, cur) # << >>
        THEN SortVolDesc(rollover_contracts(cdc, cur))[1].ts_code
        ELSE cur

\* lines 82-99: the contract held after iteration k of the loop
NextContract(d, k, cur) ==
    LET cdc == current_date_contracts(d, k)
    IN  IF cur \notin Codes(cdc)
        THEN SortVolDesc(cdc)[1].ts_code
        ELSE IF rollover_contracts(cdc, cur) # << >>
             THEN SortVolDesc(rollover_contracts(cdc, cur))[1].ts_code
             ELSE cur

\* lines 78-99: the frame after iteration k of the loop
RolloverBody(d, k, cur) ==
    IF NextContract(d, k, cur) # cur
    THEN MarkRollover(d, NextContract(d, k, cur), d[k + 1].trade_date)
    ELSE d

\* lines 77-99: the loop from iteration k on; held[j] is the contract held
\* after row j (1-based) of the frame
RECURSIVE RolloverLoop(_, _, _)
RolloverLoop(d, k, held) ==
    IF k >= Len(d) THEN [df |-> d, held |-> held]
    ELSE RolloverLoop(RolloverBody(d, k, held[k]), k + 1,
                      Append(held, NextContract(d, k, held[k])))

\* lines 65-101 on a frame with rows: the frame returned, and the contract
\* held after each of its rows
calculate_rollover_dates(d) ==
    LET sorted == RolloverInit(d)
    IN  RolloverLoop(sorted, 1, <<sorted[1].ts_code>>)

(***************************************************************************)
(* adjust_close.                                                           *)
(***************************************************************************)
\* adj_price and adj_ratio set only on a frame that has no such columns yet
AdjustInitKeep(d) ==
    [k \in 1..Len(d) |->
        d[k] @@ [adj_price |-> Float(d[k].close), adj_ratio |-> Float(1)]]

\* lines 105-106: adj_price = close, adj_ratio = 1.0
AdjustInit(d) ==
    [k \in 1..Len(d) |->
        [adj_price |-> Float(d[k].close), adj_ratio |-> Float(1)] @@ d[k]]

\* every row of the frame rescaled, whatever its contract
RescaleAll(d, previous_contract, ratio) ==
    [j \in 1..Len(d) |->
        [d[j] EXCEPT !.adj_price = FMul(@, ratio), !.adj_ratio = ratio]]

\* the rescaled price rounded to one decimal at once
RescaleRounded(d, previous_contract, ratio) ==
    [j \in 1..Len(d) |->
        IF d[j].ts_code = previous_contract
        THEN [d[j] EXCEPT !.adj_price = Round1(FMul(@, ratio)),
                          !.adj_ratio = ratio]
        ELSE d[j]]

\* lines 129 and 132: every row of previous_contract is rescaled by ratio
Rescale(d, previous_contract, ratio) ==
    [j \in 1..Len(d) |->
        IF d[j].ts_code = previous_contract
        THEN [d[j] EXCEPT !.adj_price = FMul(@, ratio), !.adj_ratio = ratio]
        ELSE d[j]]

\* line 122 at the rollover row j (1-based, j > 1): last_contract is the
\* contract of the row before
PreviousContract(d, j) == d[j - 1].ts_code

\* line 123 at the rollover row j: closing_prices holds, for each contract,
\* the close of its last row up to row j, row j included (line 117)
PreviousPrice(d, j) ==
    LET seen == {m \in 1..j : d[m].ts_code = PreviousContract(d, j)}
    IN  d[CHOOSE m \in seen : \A n \in seen : n <= m].close

\* line 126 at the rollover row j
Ratio(d, j) == FDiv(d[j].close, PreviousPrice(d, j))

\* lines 114-134: the loop from row k (0-based) on; closing_prices is the dict
RECURSIVE AdjustLoop(_, _, _, _)
AdjustLoop(d, k, last_contract, closing_prices) ==
    IF k >= Len(d) THEN d
    ELSE LET row == d[k + 1]
             cur == row.ts_code
             prices == [c \in (DOMAIN closing_prices) \cup {cur} |->
                           IF c = cur THEN row.close ELSE closing_prices[c]]
             d2 == IF row.rollover = 1 /\ last_contract # None
                   THEN Rescale(d, last_contract,
                                FDiv(row.close, prices[last_contract]))
                   ELSE d
         IN  AdjustLoop(d2, k + 1, cur, prices)

\* lines 136-138: both columns rounded to one decimal
RoundColumns(d) ==
    [k \in 1..Len(d) |->
        [d[k] EXCEPT !.adj_price = Round1(@), !.adj_ratio = Round1(@)]]

adjust_close(d) == RoundColumns(AdjustLoop(AdjustInit(d), 0, None, << >>))

\* line 143: the rows marked as roll days
RollingRows(d) == SelectSeq(d, LAMBDA r : r.rollover = 1)

(***************************************************************************)
(* The treasury-auction job (task_3).  A scraped record is a record whose   *)
(* fields are the headers of the page's table; a date of the page is a      *)
(* triple <<month, day, year>> standing for the text mm/dd/yyyy.  A row of  *)
(* the table upcoming_auctions has the columns id, cusip, auction_date and  *)
(* cancelled; the other columns play no part and are left out.              *)
(***************************************************************************)
Cusips == {"912797AA", "912797BB"}
PageDates == {<<1, 9, 2024>>, <<1, 16, 2024>>, <<2, 6, 2024>>}
NotShown == <<0, 0, 0>>       \* the page has no row for the cusip
NULL == "NULL"                \* cancelled INTEGER DEFAULT NULL

\* Scraper.fetch_data: one record per row of the page's tables
fetch_data(page) ==
    LET shown == {c \in Cusips : page[c] # NotShown}
        order == CHOOSE f \in [1..Cardinality(shown) -> shown] :
                    \A a, b \in 1..Cardinality(shown) : a # b => f[a] # f[b]
    IN  [k \in 1..Cardinality(shown) |->
            [Bills |-> "4-Week", CUSIP |-> order[k],
             AnnouncementDate |-> <<1, 2, 2024>>,
             AuctionDate |-> page[order[k]],
             IssueDate |-> <<2, 13, 2024>>]] \o << >>

\* Processor.validate_data: the required fields and a bond type are there
validate_data(record) ==
    /\ {"CUSIP", "AnnouncementDate", "AuctionDate", "IssueDate"}
           \subseteq DOMAIN record
    /\ DOMAIN record \cap {"Bills", "Notes", "Bonds", "TIPS", "FRNs"} # {}

\* Processor.convert_date_format: mm/dd/yyyy to the number yyyymmdd
convert_date_format(date) == date[3] * 10000 + date[1] * 100 + date[2]

\* Processor.convert_data, the columns of the model
convert_data(record) ==
    [cusip |-> record.CUSIP,
     auction_date |-> convert_date_format(record.AuctionDate)]

\* Processor.process_data: the valid records, converted, in order
process_data(records) ==
    LET valid == SelectSeq(records, validate_data)
    IN  [k \in 1..Len(valid) |-> convert_data(valid[k])] \o << >>

\* the next rowid of an INTEGER PRIMARY KEY column: one above the largest
NextId(table) ==
    IF table = {} THEN 1
    ELSE 1 + (CHOOSE n \in {r.id : r \in table} :
                 \A r \in table : r.id <= n)

\* the row inserted whether its cusip is stored or not
InsertAlways(table, row) ==
    table \cup {[id |-> NextId(table), cusip |-> row.cusip,
                 auction_date |-> row.auction_date, cancelled |-> NULL]}

\* INSERT OR IGNORE of one row: the UNIQUE constraint on cusip makes the
\* insert of a stored cusip do nothing
InsertOrIgnore(table, row) ==
    IF \E r \in table : r.cusip = row.cusip THEN table
    ELSE table \cup {[id |-> NextId(table), cusip |-> row.cusip,
                      auction_date |-> row.auction_date, cancelled |-> NULL]}

\* Database.insert_data: executemany over the processed rows
RECURSIVE insert_data(_, _)
insert_data(table, rows) ==
    IF rows = << >> THEN table
    ELSE insert_data(InsertOrIgnore(table, Head(rows)), Tail(rows))

\* UPDATE ... SET cusip = new_cusip WHERE cusip = current_cusip fails on the
\* UNIQUE constraint of cusip when a row it updates gets the cusip of another
\* row; sqlite3 raises IntegrityError
UpdateCusipFails(table, current_cusip, new_cusip) ==
    \E r \in table : /\ r.cusip = current_cusip
                     /\ \E q \in table :
                           /\ q.id # r.id
                           /\ q.cusip \in {new_cusip, current_cusip}

\* Database.update_cusip: the table after the call; a failed statement is
\* undone and the with block rolls the transaction back
update_cusip(table, current_cusip, new_cusip) ==
    IF UpdateCusipFails(table, current_cusip, new_cusip) THEN table
    ELSE {IF r.cusip = current_cusip THEN [r EXCEPT !.cusip = new_cusip]
          ELSE r : r \in table}

\* Database.update_auction_date
update_auction_date(table, cusip, new_auction_date) ==
    {IF r.cusip = cusip THEN [r EXCEPT !.auction_date = new_auction_date]
     ELSE r : r \in table}

\* Database.cancel_event
cancel_event(table, cusip) ==
    {IF r.cusip = cusip THEN [r EXCEPT !.cancelled = 1] ELSE r : r \in table}

\* no Database method has been called
NoCall ==
    [op |-> "none", rows |-> << >>, cusip |-> "", new_cusip |-> "",
     new_auction_date |-> 0, raised |-> FALSE]

\* the treasury changes its page: an announcement appears, its auction date
\* moves, or it is withdrawn
PageChanges ==
    /\ \E page \in [Cusips -> PageDates \cup {NotShown}] :
        page # website /\ website' = page
    /\ UNCHANGED <<data, upcoming_auctions, call>>
    /\ UNCHANGED futureVars

\* one run of main: scrape, process and, when something was processed, insert
RunJob ==
    /\ data' = fetch_data(website)
    /\ upcoming_auctions' =
        IF process_data(data') # << >>
        THEN insert_data(upcoming_auctions, process_data(data'))
        ELSE upcoming_auctions
    /\ call' = IF process_data(data') # << >>
               THEN [NoCall EXCEPT !.op = "insert_data",
                                   !.rows = process_data(data')]
               ELSE call
    /\ UNCHANGED website
    /\ UNCHANGED futureVars

NextAuction == PageChanges \/ RunJob

(***************************************************************************)
(* The methods of Database called one by one on the table, with any        *)
(* arguments.                                                              *)
(***************************************************************************)
\* the cusips and auction dates passed to the methods
CallCusips == Cusips \cup {"912797CC"}
CallDates == {convert_date_format(<<1, 9, 2024>>),
              convert_date_format(<<1, 16, 2024>>)}
CallRows == [cusip : CallCusips, auction_date : CallDates]
\* the number of rows of a call of insert_data
BatchSizes == {1, 2}

InsertData ==
    /\ \E n \in BatchSizes : \E rows \in [1..n -> CallRows] :
          /\ upcoming_auctions' = insert_data(upcoming_auctions, rows)
          /\ call' = [NoCall EXCEPT !.op = "insert_data", !.rows = rows]
    /\ UNCHANGED <<website, data>>
    /\ UNCHANGED futureVars

UpdateCusip ==
    /\ \E current_cusip \in CallCusips, new_cusip \in CallCusips :
          /\ upcoming_auctions' =
                update_cusip(upcoming_auctions, current_cusip, new_cusip)
          /\ call' = [NoCall EXCEPT
                        !.op = "update_cusip", !.cusip = current_cusip,
                        !.new_cusip = new_cusip,
                        !.raised = UpdateCusipFails(upcoming_auctions,
                                                    current_cusip, new_cusip)]
    /\ UNCHANGED <<website, data>>
    /\ UNCHANGED futureVars

UpdateAuctionDate ==
    /\ \E cusip \in CallCusips, new_auction_date \in CallDates :
          /\ upcoming_auctions' =
                update_auction_date(upcoming_auctions, cusip, new_auction_date)
          /\ call' = [NoCall EXCEPT
                        !.op = "update_auction_date", !.cusip = cusip,
                        !.new_auction_date = new_auction_date]
    /\ UNCHANGED <<website, data>>
    /\ UNCHANGED futureVars

CancelEvent ==
    /\ \E cusip \in CallCusips :
          /\ upcoming_auctions' = cancel_event(upcoming_auctions, cusip)
          /\ call' = [NoCall EXCEPT !.op = "cancel_event", !.cusip = cusip]
    /\ UNCHANGED <<website, data>>
    /\ UNCHANGED futureVars

NextDatabase == InsertData \/ UpdateCusip \/ UpdateAuctionDate \/ CancelEvent

(***************************************************************************)
(* MyAnalysis.run, one action per call; the loop of                        *)
(* calculate_rollover_dates takes one step per iteration.                  *)
(***************************************************************************)
MergeAndFilter ==
    /\ pc = "start"
    /\ futures' = merge_and_filter(future_price, future_ref)
    /\ pc' = "merged"
    /\ UNCHANGED <<future_price, future_ref, family, df, i, current_contract,
                   index_futures, commodity_futures, rolling, pass, first_output>>
    /\ UNCHANGED auctionVars

\* calculate_rollover_dates up to its loop; df['ts_code'].iloc[0] raises
\* IndexError on a frame without rows, which ends run
EnterRollover(d, fam) ==
    IF d = << >>
    THEN /\ pc' = "raised"
         /\ family' = fam
         /\ UNCHANGED <<df, i, current_contract, pass>>
    ELSE /\ df' = RolloverInit(d)
         /\ current_contract' = RolloverInit(d)[1].ts_code
         /\ i' = 1
         /\ family' = fam
         /\ pass' = 1
         /\ pc' = "rollover"

ProcessIndexFutures ==
    /\ pc = "merged"
    /\ EnterRollover(IndexRanked(futures), "IF")
    /\ UNCHANGED <<future_price, future_ref, futures, index_futures,
                   commodity_futures, rolling, first_output>>
    /\ UNCHANGED auctionVars

ProcessCommodityFutures ==
    /\ pc = "output"
    /\ family = "IF"
    /\ EnterRollover(CommodityRanked(futures), "P")
    /\ UNCHANGED <<future_price, future_ref, futures, index_futures,
                   commodity_futures, rolling, first_output>>
    /\ UNCHANGED auctionVars

\* one iteration of the loop of calculate_rollover_dates
RolloverStep ==
    /\ pc = "rollover"
    /\ i < Len(df)
    /\ df' = RolloverBody(df, i, current_contract)
    /\ current_contract' = NextContract(df, i, current_contract)
    /\ i' = i + 1
    /\ UNCHANGED <<pc, future_price, future_ref, futures, family,
                   index_futures, commodity_futures, rolling, pass, first_output>>
    /\ UNCHANGED auctionVars

\* the loop is over: calculate_rollover_dates returns and run calls
\* adjust_close on the result
AdjustClose ==
    /\ pc = "rollover"
    /\ i >= Len(df)
    /\ df' = adjust_close(df)
    /\ pc' = "adjusted"
    /\ index_futures' = IF family = "IF" THEN df' ELSE index_futures
    /\ commodity_futures' = IF family = "P" THEN df' ELSE commodity_futures
    /\ first_output' = IF pass = 1 THEN df' ELSE first_output
    /\ UNCHANGED <<future_price, future_ref, futures, family, i,
                   current_contract, rolling, pass>>
    /\ UNCHANGED auctionVars

\* calculate_rollover_dates and adjust_close applied again to their own output
Reapply ==
    /\ pc = "adjusted"
    /\ pass < MaxPass
    /\ df' = RolloverInit(df)
    /\ current_contract' = RolloverInit(df)[1].ts_code
    /\ i' = 1
    /\ pass' = pass + 1
    /\ pc' = "rollover"
    /\ UNCHANGED <<future_price, future_ref, futures, family, index_futures,
                   commodity_futures, rolling, first_output>>
    /\ UNCHANGED auctionVars

OutputRollingResult ==
    /\ pc = "adjusted"
    /\ rolling' = RollingRows(df)
    /\ pc' = "output"
    /\ UNCHANGED <<future_price, future_ref, futures, family, df, i,
                   current_contract, index_futures, commodity_futures, pass,
                   first_output>>
    /\ UNCHANGED auctionVars

Next ==
    \/ MergeAndFilter
    \/ ProcessIndexFutures
    \/ RolloverStep
    \/ AdjustClose
    \/ Reapply
    \/ OutputRollingResult
    \/ ProcessCommodityFutures

(***************************************************************************)
(* Inputs.                                                                 *)
(***************************************************************************)
\* the state of MyAnalysis(future_price, future_ref) before run
InitWith(price, ref) ==
    /\ future_price = price
    /\ future_ref = ref
    /\ pc = "start"
    /\ futures = << >>
    /\ family = "none"
    /\ df = << >>
    /\ i = 0
    /\ current_contract = None
    /\ index_futures = << >>
    /\ commodity_futures = << >>
    /\ rolling = << >>
    /\ pass = 0
    /\ first_output = << >>
    /\ website = [c \in Cusips |-> NotShown]
    /\ data = << >>
    /\ upcoming_auctions = {}
    /\ call = NoCall

\* every cell <<ts_code, trade_date>> of the model in the order of a price
\* file: by ts_code, then by trade_date
FileOrder ==
    LET all == (IFCodes \cup PCodes) \X TradeDates
        before(x, c) == x[1] < c[1] \/ (x[1] = c[1] /\ x[2] < c[2])
    IN  [p \in 1..Cardinality(all) |->
            CHOOSE c \in all : 1 + Cardinality({x \in all : before(x, c)}) = p]

\* the rows of a price file: one row per cell of cells, in file order
\* close, vol and oi give the values of each cell
PriceRows(cells, close, vol, oi) ==
    LET kept == SelectSeq(FileOrder, LAMBDA c : c \in cells)
    IN  [p \in 1..Len(kept) |->
            LET c == kept[p]
            IN  [ts_code |-> c[1], trade_date |-> c[2],
                 close |-> close[c], vol |-> vol[c], oi |-> oi[c]]]

\* a price table and a volume table without free choice: prices in
\* 1 .. MaxClose, different in every cell of the P contracts, and volumes in
\* 1 .. MaxVol
ClosePattern(c, d) == 1 + ((2 * c + 3 * d) % MaxClose)
VolPattern(c, d) == 1 + ((c + d) % MaxVol)

RefRow(c, fut, list, delist) ==
    [ts_code |-> c, fut_code |-> fut, list_date |-> list, delist_date |-> delist]

\* the P contracts: overlapping listing windows, delist dates in id order;
\* contract 5 is listed on days 1 and 2, contract 6 on days 2 and 3,
\* contract 7 on days 1 to 3
PRef == <<RefRow(5, "P", 1, 3), RefRow(6, "P", 2, 5), RefRow(7, "P", 1, 6)>>

\* the cells of the contracts of ref inside their listing window
WindowCells(ref) ==
    UNION {{<<ref[k].ts_code, d>> : d \in {d \in TradeDates :
                ref[k].list_date <= d /\ d < ref[k].delist_date}} :
           k \in 1..Len(ref)}

\* Roll inputs: one IF contract with a row on every day; every cell of the
\* P contracts inside its listing window has no row (v = 0) or a row with a
\* volume v in 1 .. MaxVol, its open interest equal to its volume; prices
\* follow ClosePattern, but for a price of 0 in the cells of zero.
RollInput(v, zero) ==
    LET cells == ({1} \X TradeDates) \cup
                 {c \in WindowCells(PRef) : v[c] > 0}
        close == [c \in cells |->
                     IF c \in zero THEN 0 ELSE ClosePattern(c[1], c[2])]
        vol == [c \in cells |-> IF c[1] \in PCodes THEN v[c] ELSE 1]
    IN  InitWith(PriceRows(cells, close, vol, vol),
                 <<RefRow(1, "IF", 1, 4)>> \o PRef)

\* every price is positive
Init == \E v \in [WindowCells(PRef) -> 0..MaxVol] : RollInput(v, {})

Spec == Init /\ [][Next]_vars

\* every P cell has a row, and the price of one of them is zero
InitZero ==
    \E v \in [WindowCells(PRef) -> 1..MaxVol], z \in WindowCells(PRef) :
        RollInput(v, {z})

SpecZero == InitZero /\ [][Next]_vars

\* Rank inputs: every contract has a row on every day; the delist date of
\* each IF contract, the list date of IF contract 4 and the open interest of
\* each P contract are free.
DelistDates == {3, 4, 5}
ListDates == {1, 2}

InitRank ==
    \E delist \in [IFCodes -> DelistDates], list \in ListDates,
       o \in [PCodes -> 1..MaxOi] :
        LET ref == [k \in 1..4 |->
                       RefRow(k, "IF", IF k = 4 THEN list ELSE 1, delist[k])]
            cells == (IFCodes \cup PCodes) \X TradeDates
            close == [c \in cells |-> ClosePattern(c[1], c[2])]
            vol == [c \in cells |-> VolPattern(c[1], c[2])]
            oi == [c \in cells |-> IF c[1] \in PCodes THEN o[c[1]] ELSE 1]
        IN  InitWith(PriceRows(cells, close, vol, oi), ref \o PRef)

SpecRank == InitRank /\ [][Next]_vars

\* Overtaking inputs: the P contracts 5 and 6 have a row on every day, with a
\* free volume in 1 .. MaxVol; the delist date of contract 6 is before, equal
\* to or after that of contract 5; contract 7, which delists last, has no
\* row (z = 0) or a row on every day, with the volume z on the last day.
\* Open interest equals volume.
OvertakeDelists == {4, 5, 6}

InitOvertake ==
    \E v \in [{5, 6} \X TradeDates -> 1..MaxVol], dy \in OvertakeDelists,
       z \in 0..MaxVol :
        LET cells == ({1, 5, 6} \X TradeDates) \cup
                     (IF z > 0 THEN {7} \X TradeDates ELSE {})
            close == [c \in cells |-> ClosePattern(c[1], c[2])]
            vol == [c \in cells |->
                       IF c[1] \in {5, 6} THEN v[c]
                       ELSE IF c = <<7, 3>> THEN z
                       ELSE VolPattern(c[1], c[2])]
        IN  InitWith(PriceRows(cells, close, vol, vol),
                     <<RefRow(1, "IF", 1, 4), RefRow(5, "P", 1, 5),
                       RefRow(6, "P", 1, dy), RefRow(7, "P", 1, 7)>>)

SpecOvertake == InitOvertake /\ [][Next]_vars

\* Window inputs: the contracts of a family are listed one after the other,
\* in windows that neither overlap nor leave a day out: with the boundaries
\* b, contract k is listed from b[k - 1] (day 1 for the first) and delists on
\* b[k] (the day after the last for the last).  Every contract has a price
\* row on every day, inside its window or not; the volume of a day is free.
WindowLayouts == {<<2, 3>>, <<2>>, <<3>>}

WindowRef(codes, fut, b) ==
    [k \in 1..(Len(b) + 1) |->
        RefRow(codes[k], fut,
               IF k = 1 THEN 1 ELSE b[k - 1],
               IF k = Len(b) + 1 THEN Cardinality(TradeDates) + 1 ELSE b[k])]

InitWindows ==
    \E bi \in WindowLayouts, bp \in WindowLayouts,
       v \in [TradeDates -> 1..MaxVol] :
        LET ref == WindowRef(<<1, 2, 3>>, "IF", bi)
                   \o WindowRef(<<5, 6, 7>>, "P", bp)
            cells == Codes(ref) \X TradeDates
            close == [c \in cells |-> ClosePattern(c[1], c[2])]
            vol == [c \in cells |-> v[c[2]]]
        IN  InitWith(PriceRows(cells, close, vol, vol), ref)

SpecWindows == InitWindows /\ [][Next]_vars

\* Rounding inputs: P contract 5 is rescaled at two rolls.  Contracts 5 and 7
\* have a row on day 1, contracts 5 and 6 on day 2; contract 5 has the lowest
\* volume, so the series rolls from 5 to 7 on day 1 and, contract 7 having
\* no row on day 2, to 6 on day 2.  The close of every P row is free in
\* 1 .. MaxRoundClose.
RoundCells == {<<5, 1>>, <<7, 1>>, <<5, 2>>, <<6, 2>>}

InitRound ==
    \E p \in [RoundCells -> 1..MaxRoundClose] :
        LET cells == ({1} \X TradeDates) \cup RoundCells
            close == [c \in cells |->
                         IF c \in RoundCells THEN p[c]
                         ELSE ClosePattern(c[1], c[2])]
            vol == [c \in cells |-> IF c[1] \in {6, 7} THEN MaxVol ELSE 1]
        IN  InitWith(PriceRows(cells, close, vol, vol),
                     <<RefRow(1, "IF", 1, 4)>> \o PRef)

SpecRound == InitRound /\ [][Next]_vars

\* the job starts with an empty table; MyAnalysis is not run
InitAuction ==
    /\ InitWith(<< >>, << >>)

SpecAuction == InitAuction /\ [][NextAuction]_vars

\* the table is empty and the methods of Database are called directly
SpecDatabase == InitAuction /\ [][NextDatabase]_vars

(***************************************************************************)
(* Helpers of the properties.                                              *)
(***************************************************************************)
Ranked == pc \in {"rollover", "adjusted", "output"}
Adjusted == pc \in {"adjusted", "output"}

\* the rows of futures of the running family listed on a day
ListedOn(day) ==
    {k \in 1..Len(futures) :
        futures[k].fut_code = family /\ futures[k].trade_date = day}

\* the generic slot (1, 2, 3) a label stands for
SlotOf(generic) ==
    CASE generic \in {"IFc1", "Pv1"} -> 1
      [] generic \in {"IFc2", "Pv2"} -> 2
      [] generic \in {"IFc3", "Pv3"} -> 3

\* C5 (activity ranking): on every day the P row labelled v1 has the largest
\* open interest of the listed P contracts, v2 the second largest, v3 the
\* third largest: fewer than k listed contracts have a higher open interest
\* than the row labelled vk, and at least k have one as high.
C5_ActivityRanking ==
    (Ranked /\ family = "P") =>
        \A j \in 1..Len(df) :
            LET higher == {k \in ListedOn(df[j].trade_date) :
                              futures[k].oi > df[j].oi}
                ashigh == {k \in ListedOn(df[j].trade_date) :
                              futures[k].oi >= df[j].oi}
            IN  /\ Cardinality(higher) < SlotOf(df[j].generic)
                /\ SlotOf(df[j].generic) <= Cardinality(ashigh)

\* C6 (calendar ranking): on every day the IF row labelled ck is a listed IF
\* contract whose delist date is the k-th earliest of the day (fewer than k
\* listed contracts delist earlier, at least k delist no later), and every
\* listed contract with fewer than three contracts delisting before it is
\* kept under such a label (the earliest as c1, the second as c2, the third
\* as c3 when the delist dates differ).
C6_CalendarRanking ==
    (Ranked /\ family = "IF") =>
        /\ \A j \in 1..Len(df) :
            LET day == df[j].trade_date
                earlier == {k \in ListedOn(day) :
                               futures[k].delist_date < df[j].delist_date}
                nolater == {k \in ListedOn(day) :
                               futures[k].delist_date <= df[j].delist_date}
            IN  /\ \E k \in ListedOn(day) : futures[k].ts_code = df[j].ts_code
                /\ Cardinality(earlier) < SlotOf(df[j].generic)
                /\ SlotOf(df[j].generic) <= Cardinality(nolater)
        /\ \A day \in TradeDates : \A k \in ListedOn(day) :
            LET earlier == {m \in ListedOn(day) :
                               futures[m].delist_date < futures[k].delist_date}
                nolater == {m \in ListedOn(day) :
                               futures[m].delist_date <= futures[k].delist_date}
            IN  Cardinality(earlier) < 3
                => \E j \in 1..Len(df) :
                    /\ df[j].ts_code = futures[k].ts_code
                    /\ df[j].trade_date = day
                    /\ Cardinality(earlier) < SlotOf(df[j].generic)
                    /\ SlotOf(df[j].generic) <= Cardinality(nolater)

\* C6 witness: a day with four listed IF contracts of which three are
\* labelled c1, c2, c3
C6_Witness ==
    /\ Ranked /\ family = "IF"
    /\ \E day \in TradeDates :
        /\ Cardinality(ListedOn(day)) = 4
        /\ \A g \in {"IFc1", "IFc2", "IFc3"} : \E j \in 1..Len(df) :
            df[j].trade_date = day /\ df[j].generic = g

\* C7 (slots filled once): on every day with k listed contracts of the
\* family the ranked frame holds exactly min(k, 3) rows of that day, one for
\* each slot 1 .. min(k, 3), also under ties.
C7_SlotsFilledOnce ==
    Ranked =>
        \A day \in TradeDates :
            LET k == Cardinality(ListedOn(day))
                n == IF k < 3 THEN k ELSE 3
                rows == {j \in 1..Len(df) : df[j].trade_date = day}
            IN  /\ Cardinality(rows) = n
                /\ \A slot \in 1..n :
                    Cardinality({j \in rows : SlotOf(df[j].generic) = slot}) = 1

\* C10 (listing window): every row of the merged frame and of the ranked
\* frame has list_date <= trade_date < delist_date, and every price row
\* whose reference row satisfies it is in the merged frame.
C10_ListingWindow ==
    (pc # "start") =>
        /\ \A k \in 1..Len(futures) :
            /\ futures[k].list_date <= futures[k].trade_date
            /\ futures[k].trade_date < futures[k].delist_date
        /\ \A j \in 1..Len(df) :
            /\ df[j].list_date <= df[j].trade_date
            /\ df[j].trade_date < df[j].delist_date
        /\ \A p \in 1..Len(future_price) : \A r \in 1..Len(future_ref) :
            (/\ future_price[p].ts_code = future_ref[r].ts_code
             /\ future_ref[r].list_date <= future_price[p].trade_date
             /\ future_price[p].trade_date < future_ref[r].delist_date)
            => \E k \in 1..Len(futures) :
                /\ futures[k].ts_code = future_price[p].ts_code
                /\ futures[k].trade_date = future_price[p].trade_date
                /\ futures[k].close = future_price[p].close
                /\ futures[k].vol = future_price[p].vol
                /\ futures[k].oi = future_price[p].oi

\* C10 witness: the merged frame kept some rows of the price file, dropped
\* others (one before its list date, one on its delist date), and the kept
\* rows reached the roll selection
C10_Witness ==
    /\ pc = "rollover"
    /\ Len(df) > 0
    /\ \E p \in 1..Len(future_price) : \E r \in 1..Len(future_ref) :
        /\ future_price[p].ts_code = future_ref[r].ts_code
        /\ future_price[p].trade_date = future_ref[r].delist_date
    /\ \E p \in 1..Len(future_price) : \E r \in 1..Len(future_ref) :
        /\ future_price[p].ts_code = future_ref[r].ts_code
        /\ future_price[p].trade_date < future_ref[r].list_date
    /\ Len(futures) < Len(future_price)

\* the rows marked rollover = 1: one per roll, in day order
Marked == {j \in 1..Len(df) : df[j].rollover = 1}
Last(S) == CHOOSE j \in S : \A m \in S : m <= j

\* the contracts the series has held so far: the first row's and every
\* contract rolled into
HeldSoFar == {df[1].ts_code} \cup {df[j].ts_code : j \in Marked}

DelistOf(c) == df[CHOOSE j \in 1..Len(df) : df[j].ts_code = c].delist_date

\* a step of the loop that changes the held contract
Rolls ==
    pc = "rollover" /\ pc' = "rollover" /\ current_contract' # current_contract

\* the contract held before the roll marked on row j, and the one held at
\* the end
Outgoing(j) ==
    IF {m \in Marked : m < j} = {} THEN df[1].ts_code
    ELSE df[Last({m \in Marked : m < j})].ts_code
FinalHeld == IF Marked = {} THEN df[1].ts_code ELSE df[Last(Marked)].ts_code
LastRollDay == IF Marked = {} THEN 0 ELSE df[Last(Marked)].trade_date

\* C1 (no resurrection): a roll never moves the series to a contract it has
\* held before.
C1_NoResurrection == [][Rolls => current_contract' \notin HeldSoFar]_vars

\* C2 (monotonicity): a roll never moves the series to a contract whose
\* delist date is earlier than that of a contract it has held before.
C2_Monotonicity ==
    [][Rolls => \A c \in HeldSoFar :
                    DelistOf(current_contract') >= DelistOf(c)]_vars

\* C3 (continuity): after adjust_close, at every roll the adjusted close of
\* the outgoing contract on the roll day is within 0.1 of the adjusted close
\* of the incoming contract on the roll day.
C3_Continuity ==
    Adjusted =>
        \A j \in Marked : \A m \in 1..Len(df) :
            (df[m].ts_code = Outgoing(j) /\ df[m].trade_date = df[j].trade_date)
            => FWithinTenth(df[m].adj_price, df[j].adj_price)

\* C4 (live segment): after adjust_close, every row of the contract held at
\* the end, from its roll day on, has an adjusted price equal to its close.
C4_LiveSegment ==
    Adjusted =>
        \A j \in 1..Len(df) :
            (df[j].ts_code = FinalHeld /\ df[j].trade_date >= LastRollDay)
            => FEq(df[j].adj_price, Float(df[j].close))

\* C8 (zero price at a roll): after adjust_close no adjusted price and no
\* ratio is infinite or NaN, and a roll whose price_from or price_to is zero
\* leaves the rows of the contract it would rescale unadjusted (ratio 1.0,
\* adjusted price the rounded close) when no other roll rescales them.
C8_ZeroPriceSkipped ==
    Adjusted =>
        /\ \A j \in 1..Len(df) :
            IsFinite(df[j].adj_price) /\ IsFinite(df[j].adj_ratio)
        /\ \A j \in Marked \ {1} :
            LET previous_contract == df[j - 1].ts_code
                price_to == df[j].close
                price_from == IF df[j].ts_code = previous_contract
                              THEN df[j].close ELSE df[j - 1].close
            IN  (/\ price_to = 0 \/ price_from = 0
                 /\ \A m \in Marked \ {1, j} :
                        df[m - 1].ts_code # previous_contract)
                => \A k \in 1..Len(df) :
                    df[k].ts_code = previous_contract
                    => /\ FEq(df[k].adj_ratio, Float(1))
                       /\ df[k].adj_price = Round1(Float(df[k].close))

\* C9 (idempotence): calculate_rollover_dates and adjust_close applied to
\* their own output give back that output: the same rows in the same order
\* with the same labels, roll marks, ratios and adjusted prices.
C9_Idempotent == (Adjusted /\ pass > 1) => df = first_output

\* C9 witness: a second pass ended on a frame with a roll and a row whose
\* adjusted price differs from its close
C9_Witness ==
    /\ pc = "adjusted" /\ pass > 1
    /\ Marked # {}
    /\ \E j \in 1..Len(df) :
        /\ IsFinite(df[j].adj_price)
        /\ ~FEq(df[j].adj_price, Float(df[j].close))

(***************************************************************************)
(* Helpers of the properties on single iterations of the roll loop.        *)
(***************************************************************************)
\* an iteration of the loop of calculate_rollover_dates
LoopStep == pc = "rollover" /\ pc' = "rollover" /\ i' = i + 1
\* the trading day of the row the next iteration looks at
Today == df[i + 1].trade_date
RowsOf(c, day) ==
    {j \in 1..Len(df) : df[j].ts_code = c /\ df[j].trade_date = day}
HasRow(c, day) == RowsOf(c, day) # {}
VolOn(c, day) == df[CHOOSE j \in RowsOf(c, day) : TRUE].vol
DaysOf == {df[j].trade_date : j \in 1..Len(df)}
\* the trading day before day (0 when day is the first)
PreviousDay(day) ==
    IF {d \in DaysOf : d < day} = {} THEN 0
    ELSE CHOOSE d \in DaysOf : d < day /\ \A e \in DaysOf : e < day => e <= d
\* on day the volume of y is above that of x, both traded, after a trading
\* day on which both traded and it was not
Overtakes(y, x, day) ==
    /\ x # y /\ HasRow(x, day) /\ HasRow(y, day)
    /\ VolOn(y, day) > VolOn(x, day)
    /\ HasRow(x, PreviousDay(day)) /\ HasRow(y, PreviousDay(day))
    /\ VolOn(y, PreviousDay(day)) <= VolOn(x, PreviousDay(day))
\* y has the single highest volume of the day
Leads(y, day) ==
    \A j \in 1..Len(df) :
        (df[j].trade_date = day /\ df[j].ts_code # y) => df[j].vol < VolOn(y, day)
\* the last roll so far moved the series from x to y because y overtook x
DisplacedBy(x, y) ==
    /\ Marked # {}
    /\ df[Last(Marked)].ts_code = y
    /\ Outgoing(Last(Marked)) = x
    /\ Overtakes(y, x, df[Last(Marked)].trade_date)
\* a contract delisting after y has a higher volume than y on day
LaterLeader(y, day) ==
    \E j \in 1..Len(df) :
        /\ df[j].trade_date = day
        /\ df[j].delist_date > DelistOf(y)
        /\ df[j].vol > VolOn(y, day)

\* C11 as stated (scenario B): when the volume of a contract Y overtakes that
\* of the incumbent X, with the day's highest volume, the series rolls from X
\* to Y on that day; when later the volume of X is above that of Y again, Y
\* remains the incumbent.
C11_ScenarioB ==
    [][LoopStep =>
        /\ \A y \in PCodes :
            (family = "P" /\ Overtakes(y, current_contract, Today)
                /\ Leads(y, Today))
            => current_contract' = y
        /\ \A x \in PCodes :
            (/\ family = "P" /\ DisplacedBy(x, current_contract)
             /\ Today > df[Last(Marked)].trade_date
             /\ HasRow(x, Today) /\ HasRow(current_contract, Today)
             /\ VolOn(x, Today) > VolOn(current_contract, Today))
            => current_contract' = current_contract]_vars

\* C11 amended: the series rolls from X to the overtaking Y when Y delists
\* strictly after X; the roll back to X is then rejected, and Y remains the
\* incumbent unless a contract that delists after Y has a volume above Y's.
C11_ScenarioBLater ==
    [][LoopStep =>
        /\ \A y \in PCodes :
            (/\ family = "P" /\ Overtakes(y, current_contract, Today)
             /\ Leads(y, Today)
             /\ DelistOf(y) > DelistOf(current_contract))
            => current_contract' = y
        /\ \A x \in PCodes :
            (/\ family = "P" /\ DisplacedBy(x, current_contract)
             /\ Today > df[Last(Marked)].trade_date
             /\ HasRow(x, Today) /\ HasRow(current_contract, Today)
             /\ VolOn(x, Today) > VolOn(current_contract, Today))
            => /\ current_contract' # x
               /\ ~LaterLeader(current_contract, Today)
                  => current_contract' = current_contract]_vars

\* C11 witness: Y overtook X and displaced it on one day, X traded above Y
\* on the next, and the loop ended with Y as the incumbent
C11_Witness ==
    /\ pc = "adjusted" /\ family = "P"
    /\ \E x \in PCodes :
        /\ DisplacedBy(x, FinalHeld)
        /\ \E day \in DaysOf :
            /\ day > LastRollDay
            /\ HasRow(x, day) /\ HasRow(FinalHeld, day)
            /\ VolOn(x, day) > VolOn(FinalHeld, day)

\* the reference rows of the running family
FamilyRef == SelectSeq(future_ref, LAMBDA r : r.fut_code = family)
\* the contracts of the family are listed in consecutive windows that do not
\* overlap, with strictly increasing delist dates, and each has a price row
\* on every day of its window
SoleListed ==
    /\ \A k \in 1..(Len(FamilyRef) - 1) :
        /\ FamilyRef[k + 1].list_date = FamilyRef[k].delist_date
        /\ FamilyRef[k].delist_date < FamilyRef[k + 1].delist_date
    /\ \A k \in 1..Len(FamilyRef) : \A day \in TradeDates :
        (FamilyRef[k].list_date <= day /\ day < FamilyRef[k].delist_date)
        => \E p \in 1..Len(future_price) :
            /\ future_price[p].ts_code = FamilyRef[k].ts_code
            /\ future_price[p].trade_date = day

\* C12 (scenario A): with n contracts each the only one listed in its window,
\* the loop ends with exactly n - 1 rolls, one into each contract but the
\* first, marked on the first day of that contract's window, each from the
\* contract listed just before it; the incumbent on every day is the listed
\* contract (no roll is rejected).
C12_ScenarioA ==
    (Adjusted /\ SoleListed) =>
        /\ Cardinality(Marked) = Len(FamilyRef) - 1
        /\ df[1].ts_code = FamilyRef[1].ts_code
        /\ \A k \in 2..Len(FamilyRef) : \E j \in Marked :
            /\ df[j].ts_code = FamilyRef[k].ts_code
            /\ df[j].trade_date = FamilyRef[k].list_date
            /\ Outgoing(j) = FamilyRef[k - 1].ts_code
        /\ \A j \in 1..Len(df) :
            Outgoing(j + 1) = df[j].ts_code

\* C12 witness: three contracts in three windows, and the loop ended
C12_Witness ==
    /\ pc = "adjusted" /\ family = "IF" /\ SoleListed
    /\ Len(FamilyRef) = 3
    /\ Cardinality(Marked) = 2

\* C13 (changes are captured): after a run of the job, every announcement
\* the run scraped is stored with the auction date the page showed.
C13_ChangeCaptured ==
    \A k \in 1..Len(process_data(data)) :
        \E r \in upcoming_auctions :
            /\ r.cusip = process_data(data)[k].cusip
            /\ r.auction_date = process_data(data)[k].auction_date

\* the label of the row of contract c on day
GenericOn(c, day) == df[CHOOSE j \in RowsOf(c, day) : TRUE].generic

\* C14 (an accepted roll goes to the ranked contract): every roll moves the
\* series to the contract labelled with the first slot (c1, v1) on that day,
\* and a roll taken while the incumbent has a row on the day goes to a
\* contract whose delist date is after that of every contract held so far.
C14_RollToRanked ==
    [][(LoopStep /\ current_contract' # current_contract) =>
        /\ SlotOf(GenericOn(current_contract', Today)) = 1
        /\ HasRow(current_contract, Today)
            => \A c \in HeldSoFar :
                DelistOf(current_contract') > DelistOf(c)]_vars

(***************************************************************************)
(* Helpers of the properties on the adjustment.                            *)
(***************************************************************************)
\* the close of contract c on day
CloseOn(c, day) == df[CHOOSE j \in RowsOf(c, day) : TRUE].close
\* the rolls in row order, and the number of the roll marked on row j
RollNumber(j) == Cardinality({m \in Marked : m <= j})
\* the close the outgoing contract of the roll marked on row j has on the
\* roll day, and the close of the incoming one
PriceFrom(j) == CloseOn(Outgoing(j), df[j].trade_date)
PriceTo(j) == df[j].close
\* every roll has an outgoing contract with a row, and a positive close, on
\* the roll day
RollsPriced ==
    \A j \in Marked : HasRow(Outgoing(j), df[j].trade_date) /\ PriceFrom(j) > 0
\* the row belongs to the segment of the series that ends with the roll
\* marked on row j: its contract is the outgoing one and its day lies between
\* the roll before (included) and this roll (included: the outgoing close of
\* the roll day is part of the older segment)
InSegmentBefore(k, j) ==
    /\ df[k].ts_code = Outgoing(j)
    /\ df[k].trade_date <= df[j].trade_date
    /\ \A m \in Marked : m < j => df[m].trade_date <= df[k].trade_date
\* the product of the ratios price_to / price_from of the rolls marked on
\* the rows of S
RECURSIVE RatioProduct(_)
RatioProduct(S) ==
    IF S = {} THEN Float(1)
    ELSE LET j == Last(S)
         IN  FMul(FDiv(PriceTo(j), PriceFrom(j)), RatioProduct(S \ {j}))

\* C15 (cumulative back-adjustment): after adjust_close, the adjusted price
\* of every row of a segment is its close times the product of the ratios of
\* all the rolls after that segment, rounded to one decimal.
C15_Cumulative ==
    (Adjusted /\ RollsPriced) =>
        \A j \in Marked : \A k \in 1..Len(df) :
            InSegmentBefore(k, j)
            => df[k].adj_price =
                Round1(FMul(Float(df[k].close),
                            RatioProduct({m \in Marked : m >= j})))

\* C16 (the ratio is taken against the incumbent): at every roll whose
\* outgoing contract has a row on the roll day, the contract whose rows
\* adjust_close rescales is the outgoing contract, price_from is its close of
\* the roll day, and the ratio is the incoming close over that close.
C16_RatioAgainstIncumbent ==
    Adjusted =>
        \A j \in Marked :
            HasRow(Outgoing(j), df[j].trade_date)
            => /\ PreviousContract(df, j) = Outgoing(j)
               /\ PreviousPrice(df, j) = PriceFrom(j)
               /\ Ratio(df, j) = FDiv(PriceTo(j), PriceFrom(j))

\* the rows the step marks
NewlyMarked == {j \in 1..Len(df) : df'[j].rollover = 1 /\ df[j].rollover = 0}

\* C17 (roll events and changes of the held contract): an iteration marks a
\* row exactly when it changes the held contract; the row it marks is the
\* row of the new contract on the day at hand, the only row marked on that
\* day, the day has a trading day before it (the change is one between
\* consecutive trading days), and no other row changes.
C17_RollEvents ==
    [][LoopStep =>
        /\ (current_contract' # current_contract) <=> (NewlyMarked # {})
        /\ (current_contract' # current_contract) =>
            /\ NewlyMarked = RowsOf(current_contract', Today)
            /\ Cardinality(NewlyMarked) = 1
            /\ \A j \in Marked : df[j].trade_date # Today
            /\ PreviousDay(Today) # 0
        /\ \A j \in (1..Len(df)) \ NewlyMarked : df'[j] = df[j]]_vars

\* C18 (the first day emits no roll): no row of the earliest trading day of
\* the frame is marked rollover = 1.
C18_FirstDayNoRoll ==
    Ranked => \A j \in Marked : df[j].trade_date # df[1].trade_date

\* C19 (a missing universe is a gap): the stages never raise, and the ranked
\* frame has rows, and roll marks, only on days with a listed contract of
\* the family.
C19_GapNoFailure ==
    /\ pc # "raised"
    /\ Ranked => \A j \in 1..Len(df) : ListedOn(df[j].trade_date) # {}

(***************************************************************************)
(* Forward-only information flow.                                          *)
(***************************************************************************)
\* the price rows up to and including day d
PricesUpTo(d) == SelectSeq(future_price, LAMBDA r : r.trade_date <= d)

\* what the stages of the family compute from the prices up to day d: the
\* frame with its roll marks and the contract held after each row (nothing
\* when no row qualifies)
RunUpTo(d) ==
    LET fut == merge_and_filter(PricesUpTo(d), future_ref)
        ranked == IF family = "IF" THEN IndexRanked(fut)
                                   ELSE CommodityRanked(fut)
    IN  IF ranked = << >> THEN [df |-> << >>, held |-> << >>]
        ELSE calculate_rollover_dates(ranked)

\* C20 (forward-only information flow): on every trading day up to d, the
\* held contract and the roll marks computed from the whole input are those
\* computed from the input cut after day d; any two inputs that agree up to
\* d have the same cut, so they have the same held contract and roll marks
\* up to d.
C20_ForwardOnly ==
    (pc = "rollover" /\ pass = 1) =>
        \A d \in TradeDates :
            LET cut == RunUpTo(d)
                n == Len(cut.df)
            IN  /\ i <= n => current_contract = cut.held[i]
                /\ i >= n => \A j \in 1..n : df[j] = cut.df[j]

\* the loop is over, it rolled on one day and the frame has rows of a later
\* day, among them rows of the contract rolled to
C20_Witness ==
    /\ pc = "rollover" /\ pass = 1 /\ i >= Len(df)
    /\ \E j \in Marked : \E m \in 1..Len(df) :
          /\ df[m].trade_date > df[j].trade_date
          /\ df[m].ts_code = df[j].ts_code
    /\ \E j \in Marked : \E m \in 1..Len(df) :
          /\ df[m].trade_date < df[j].trade_date
          /\ df[m].ts_code = df[j].ts_code

(***************************************************************************)
(* Rounding.                                                               *)
(***************************************************************************)
\* the rollover rows at which adjust_close rescales the contract of row k
RescaledAt(k) ==
    {m \in Marked : m > 1 /\ PreviousContract(df, m) = df[k].ts_code}

\* the exact product of the ratios adjust_close computes at the rows of S
RECURSIVE ExactRatios(_)
ExactRatios(S) ==
    IF S = {} THEN Float(1)
    ELSE LET m == Last(S)
         IN  FMul(Ratio(df, m), ExactRatios(S \ {m}))

\* the adjusted price of row k before any rounding
ExactPrice(k) == FMul(Float(df[k].close), ExactRatios(RescaledAt(k)))

\* C21 (rounded once, at the end): after adjust_close, the adjusted price of
\* every row is the one rounding to one decimal of its close times the exact,
\* unrounded ratios of all the rescalings of its contract.
C21_RoundedOnce ==
    Adjusted => \A k \in 1..Len(df) : df[k].adj_price = Round1(ExactPrice(k))

\* a row rescaled at two rolls whose price after the first rescaling is not a
\* multiple of a tenth, and for which rounding that price before the second
\* rescaling would give another adjusted price
C21_Witness ==
    /\ Adjusted
    /\ \E k \in 1..Len(df) :
          /\ Cardinality(RescaledAt(k)) >= 2
          /\ \E m \in RescaledAt(k) :
                LET once == FMul(Float(df[k].close), Ratio(df, m))
                    rest == ExactRatios(RescaledAt(k) \ {m})
                IN  /\ \A n \in RescaledAt(k) : m <= n
                    /\ ~FEq(Round1(once), once)
                    /\ Round1(FMul(Round1(once), rest)) # df[k].adj_price

(***************************************************************************)
(* The table upcoming_auctions.                                            *)
(***************************************************************************)
StoredCusips == {r.cusip : r \in upcoming_auctions}
StoredIds == {r.id : r \in upcoming_auctions}

\* C22 (one row per cusip): after every call of insert_data, update_cusip,
\* update_auction_date or cancel_event no two rows of the table have the same
\* cusip, and every row a call adds has a cusip that was not stored before
\* the call.
C22_UniqueCusip ==
    [][/\ \A r, q \in upcoming_auctions' : r.cusip = q.cusip => r = q
       /\ \A r \in upcoming_auctions' :
             r.id \notin StoredIds => r.cusip \notin StoredCusips]_vars

\* insert_data was called with a row whose cusip was stored, with another
\* auction date, and a row whose cusip was not: the table has the second row
\* and still the old row of the first
C22_Witness ==
    /\ call.op = "insert_data"
    /\ \E r \in upcoming_auctions, k \in 1..Len(call.rows) :
          /\ call.rows[k].cusip = r.cusip
          /\ call.rows[k].auction_date # r.auction_date
          /\ r.id < NextId(upcoming_auctions) - 1
    /\ \E r \in upcoming_auctions, k \in 1..Len(call.rows) :
          /\ call.rows[k].cusip = r.cusip
          /\ r.id = NextId(upcoming_auctions) - 1

(***************************************************************************)
(* The frame of adjust_close.                                              *)
(***************************************************************************)
\* the step is a call of adjust_close
AdjustStep == pc = "rollover" /\ pc' = "adjusted"

\* the contract of row k is the contract of the row right before a row
\* marked as a roll
BeforeRoll(k) ==
    \E m \in Marked : m > 1 /\ df[m - 1].ts_code = df[k].ts_code

\* C23 (frame of adjust_close): adjust_close leaves the number and the order
\* of the rows and the close, rollover, ts_code and trade_date of every row
\* as they are; a row whose contract is not the contract of the row right
\* before a rollover = 1 row gets its close rounded to one decimal as
\* adjusted price, and the ratio 1.0.
C23_AdjustFrame ==
    [][AdjustStep =>
        /\ Len(df') = Len(df)
        /\ \A k \in 1..Len(df) :
            /\ df'[k].close = df[k].close
            /\ df'[k].rollover = df[k].rollover
            /\ df'[k].ts_code = df[k].ts_code
            /\ df'[k].trade_date = df[k].trade_date
            /\ ~BeforeRoll(k) =>
                /\ df'[k].adj_price = Round1(Float(df[k].close))
                /\ df'[k].adj_ratio = Round1(Float(1))]_vars

\* adjust_close has changed the adjusted price of a row, and the frame has a
\* row of another contract, after it, that it has left at its close
C23_Witness ==
    /\ pc = "adjusted"
    /\ \E k \in 1..Len(df) :
          /\ BeforeRoll(k)
          /\ df[k].adj_price # Round1(Float(df[k].close))
          /\ \E m \in (k + 1)..Len(df) :
                /\ ~BeforeRoll(m)
                /\ df[m].ts_code # df[k].ts_code

====
